---- MODULE Spec2Model ----
(***************************************************************************)
(* Model of openwpm/utilities/platform_utils.py: the stack-trace parser,   *)
(* the browser binary / profile path resolvers, get_version and the       *)
(* configuration report builder.                                          *)
(*                                                                         *)
(* Python strings that the code takes apart are sequences of one-character *)
(* strings; strings the code only passes around are TLA+ strings.          *)
(* Every call ends in an outcome record: kind "return" with a value, or    *)
(* kind "raise" with the name of the exception class.                      *)
(***************************************************************************)
EXTENDS Integers, Sequences, FiniteSets, TLC

VARIABLES
    call,            \* name of the function that has been called, "" before
    result,          \* outcome of that call
    stdout,          \* what the call printed (frames reported as unparsable)
    trace_str,       \* argument of parse_http_stack_trace_str
    environ,         \* os.environ: the set of variables that are set
    platform,        \* sys.platform
    fs,              \* file system and external processes, see Worlds
    slider_setting,  \* argument of get_torbrowser_profile_path
    heap,            \* caller-owned dict objects, by address
    manager_params,  \* argument of get_configuration_string
    browser_params,  \* argument of get_configuration_string: addresses
    versions         \* argument of get_configuration_string

vars == <<call, result, stdout, trace_str, environ, platform, fs,
          slider_setting, heap, manager_params, browser_params, versions>>

parseVars == <<trace_str>>
pathVars == <<environ, platform, fs, slider_setting>>
reportVars == <<heap, manager_params, browser_params, versions>>

----------------------------------------------------------------------------
(* Bounds of the explored inputs *)

MaxLineLen == 5
MaxLines == 3

----------------------------------------------------------------------------
(* Outcomes *)

Return(v) == [kind |-> "return", exc |-> "", value |-> v]
Raise(e) == [kind |-> "raise", exc |-> e, value |-> <<>>]
\* An exception raised with a message
RaiseMsg(e, msg) == [kind |-> "raise", exc |-> e, value |-> msg]
NoResult == [kind |-> "none", exc |-> "", value |-> <<>>]

----------------------------------------------------------------------------
(* str.split / str.rsplit with a one-character separator *)

RECURSIVE Find(_, _, _)
\* str.find(sep, from): first index >= from holding sep, 0 when there is none
Find(s, sep, from) ==
    IF from > Len(s) THEN 0
    ELSE IF s[from] = sep THEN from
    ELSE Find(s, sep, from + 1)

RECURSIVE RFind(_, _, _)
\* str.rfind(sep): last index <= upto holding sep, 0 when there is none
RFind(s, sep, upto) ==
    IF upto < 1 THEN 0
    ELSE IF s[upto] = sep THEN upto
    ELSE RFind(s, sep, upto - 1)

RECURSIVE split(_, _, _)
\* s.split(sep, maxsplit); maxsplit -1 is "no limit"
split(s, sep, maxsplit) ==
    LET i == Find(s, sep, 1) IN
    IF maxsplit = 0 \/ i = 0 THEN <<s>>
    ELSE <<SubSeq(s, 1, i - 1)>>
         \o split(SubSeq(s, i + 1, Len(s)), sep, maxsplit - 1)

RECURSIVE rsplit(_, _, _)
\* s.rsplit(sep, maxsplit)
rsplit(s, sep, maxsplit) ==
    LET i == RFind(s, sep, Len(s)) IN
    IF maxsplit = 0 \/ i = 0 THEN <<s>>
    ELSE rsplit(SubSeq(s, 1, i - 1), sep, maxsplit - 1)
         \o <<SubSeq(s, i + 1, Len(s))>>

----------------------------------------------------------------------------
(* parse_http_stack_trace_str *)

\* Faulty variant: splits on the last "@" instead of the first
SplitFuncNameLast(frame) == rsplit(frame, "@", 1)

\* func_name, rest = frame.split("@", 1)
SplitFuncName(frame) == split(frame, "@", 1)

\* rest, async_cause = rest.rsplit(";", 1)
SplitAsyncCause(rest) == rsplit(rest, ";", 1)

\* Faulty variant: takes the first two ":" instead of the last two
SplitLocationLeft(rest) == split(rest, ":", 2)

\* filename, line_no, col_no = rest.rsplit(":", 2)
SplitLocation(rest) == rsplit(rest, ":", 2)

\* The body of the try block for one frame: the dict appended, or the
\* ValueError of a tuple unpacking that got the wrong number of parts.
ParseFrame(frame) ==
    LET p1 == SplitFuncName(frame) IN
    IF Len(p1) # 2 THEN Raise("ValueError")
    ELSE LET p2 == SplitAsyncCause(p1[2]) IN
         IF Len(p2) # 2 THEN Raise("ValueError")
         ELSE LET p3 == SplitLocation(p2[1]) IN
              IF Len(p3) # 3 THEN Raise("ValueError")
              ELSE Return([func_name |-> p1[1],
                           filename |-> p3[1],
                           line_no |-> p3[2],
                           col_no |-> p3[3],
                           async_cause |-> p2[2]])

RECURSIVE ParseLoopNoCatch(_, _, _)
\* Faulty variant: no try/except around the frame, the ValueError escapes
ParseLoopNoCatch(frames, stack_trace, printed) ==
    IF frames = <<>> THEN [out |-> Return(stack_trace), printed |-> printed]
    ELSE LET r == ParseFrame(Head(frames)) IN
         IF r.kind = "return"
         THEN ParseLoopNoCatch(Tail(frames), Append(stack_trace, r.value),
                               printed)
         ELSE [out |-> r, printed |-> printed]

RECURSIVE ParseLoop(_, _, _)
\* for frame in frames: try ... except Exception: print(...)
ParseLoop(frames, stack_trace, printed) ==
    IF frames = <<>> THEN [out |-> Return(stack_trace), printed |-> printed]
    ELSE LET r == ParseFrame(Head(frames)) IN
         IF r.kind = "return"
         THEN ParseLoop(Tail(frames), Append(stack_trace, r.value), printed)
         ELSE ParseLoop(Tail(frames), stack_trace,
                        Append(printed, Head(frames)))

parse_http_stack_trace_str(s) == ParseLoop(split(s, "\n", -1), <<>>, <<>>)

----------------------------------------------------------------------------
(* Inputs of the parser *)

LineAlphabet == {"f", "@", ":", ";"}

RECURSIVE StringsUpTo(_, _)
StringsUpTo(alphabet, n) ==
    IF n = 0 THEN {<<>>}
    ELSE LET shorter == StringsUpTo(alphabet, n - 1) IN
         shorter \cup {Append(s, c) : s \in {t \in shorter : Len(t) = n - 1},
                                      c \in alphabet}

EnumLines == StringsUpTo(LineAlphabet, MaxLineLen)

\* f@http://x:1:2:3:4;click
UrlLine == <<"f", "@", "h", "t", "t", "p", ":", "/", "/", "x", ":", "1",
             ":", "2", ":", "3", ":", "4", ";", "c", "l", "i", "c", "k">>

SampleLines ==
    { <<"f", "@", "x", ":", "1", ":", "2", ";", "a">>,
      <<"@", ":", ":", ";">>,
      <<"g", "@", "h", ":", "3", ";", "b">>,
      <<"x", ":", "1", ":", "2", ";", "a">>,
      <<>>,
      UrlLine }

RECURSIVE Join(_)
\* "\n".join(lines)
Join(lines) ==
    IF Len(lines) = 1 THEN lines[1]
    ELSE lines[1] \o <<"\n">> \o Join(Tail(lines))

SampleTraces ==
    UNION { {Join(ls) : ls \in [1..n -> SampleLines]} : n \in 1..MaxLines }

TraceStrs == EnumLines \cup SampleTraces

----------------------------------------------------------------------------
(* Blank values of the variables a specification does not use *)

NoTrace == <<>>
NoWorld == [files |-> {}, dirs |-> {}, git |-> "ok", firefox_exit |-> 0,
            tbb_version |-> "ok"]

ParseIdle ==
    /\ environ = {} /\ platform = "linux" /\ fs = NoWorld
    /\ slider_setting = ""
    /\ heap = <<>> /\ manager_params = <<>> /\ browser_params = <<>>
    /\ versions = <<>>

InitParse ==
    /\ call = "" /\ result = NoResult /\ stdout = <<>>
    /\ trace_str \in TraceStrs
    /\ ParseIdle

Parse ==
    /\ call = ""
    /\ LET r == parse_http_stack_trace_str(trace_str) IN
       /\ result' = r.out
       /\ stdout' = r.printed
    /\ call' = "parse_http_stack_trace_str"
    /\ UNCHANGED <<parseVars, pathVars, reportVars>>

NextParse == Parse

SpecParse == InitParse /\ [][NextParse]_vars

----------------------------------------------------------------------------
(* The world the path resolvers and get_version look at.                   *)
(* environ is the set of environment variables that are set; the value of  *)
(* variable X is the path "$X". fs.files / fs.dirs are the paths for which *)
(* os.path.isfile / os.path.isdir hold. A profile directory is the pair    *)
(* <<parent, slider_setting>>.                                             *)

EnvFirefox == "$FIREFOX_BINARY"
EnvTorBinary == "$TORBROWSER_BINARY"
EnvTorProfile == "$TORBROWSER_PROFILE"

\* root_dir + "/Nightly.app/Contents/MacOS/firefox-bin" or
\* root_dir + "/firefox-bin/firefox-bin"
DefaultFirefox(pf) ==
    IF pf = "darwin" THEN "root/Nightly.app/Contents/MacOS/firefox-bin"
    ELSE "root/firefox-bin/firefox-bin"

\* root_dir + "/Nightly.app/Contents/MacOS/Tor/firefox-bin" or
\* root_dir + "/Tor/tor-browser/Browser/firefox"
DefaultTorBinary(pf) ==
    IF pf = "darwin" THEN "root/Nightly.app/Contents/MacOS/Tor/firefox-bin"
    ELSE "root/Tor/tor-browser/Browser/firefox"

DefaultTorProfileParent == "root/Tor/tor-browser/Browser/TorBrowser/Data/Browser"

get_firefox_binary_path ==
    IF "FIREFOX_BINARY" \in environ
    THEN IF EnvFirefox \notin fs.files
         THEN RaiseMsg("RuntimeError", "No file found at FIREFOX_BINARY")
         ELSE Return(EnvFirefox)
    ELSE IF DefaultFirefox(platform) \notin fs.files
         THEN RaiseMsg("RuntimeError", "firefox-bin/firefox-bin not found")
         ELSE Return(DefaultFirefox(platform))

get_torbrowser_binary_path ==
    IF "TORBROWSER_BINARY" \in environ
    THEN IF EnvTorBinary \notin fs.files
         THEN RaiseMsg("RuntimeError", "No file found at TORBROWSER_BINARY")
         ELSE Return(EnvTorBinary)
    ELSE IF DefaultTorBinary(platform) \notin fs.files
         THEN RaiseMsg("RuntimeError", "Tor/tor-browser/Browser/firefox not found")
         ELSE Return(DefaultTorBinary(platform))

\* The local torbrowser_profile_path is assigned only on the non-darwin
\* default branch; slider_level is no name of the module at all.
get_torbrowser_profile_path(slider) ==
    IF "TORBROWSER_PROFILE" \in environ
    THEN IF <<EnvTorProfile, slider>> \notin fs.dirs
         THEN RaiseMsg("RuntimeError", "No file found at TORBROWSER_PROFILE")
         \* return torbrowser_profile_path + ...: the local is unassigned
         ELSE RaiseMsg("UnboundLocalError", "torbrowser_profile_path")
    ELSE IF platform = "darwin"
         \* only torbrowser_binary_path was assigned; isdir reads the
         \* unassigned torbrowser_profile_path
         THEN RaiseMsg("UnboundLocalError", "torbrowser_profile_path")
         ELSE IF <<DefaultTorProfileParent, slider>> \notin fs.dirs
              \* the message's f-string reads slider_level
              THEN RaiseMsg("NameError", "slider_level")
              ELSE Return(<<DefaultTorProfileParent, slider>>)

\* with open(torbrowser_version_path) ...: json.loads(...)['version'].
\* Each handler raises "from e", and e is a local that is unassigned there:
\* the only "as e" clause of the function has not run.
ReadTorVersion ==
    CASE fs.tbb_version = "ok" -> Return("Tor Browser Version")
      [] fs.tbb_version = "missing" -> RaiseMsg("UnboundLocalError", "e")
      [] fs.tbb_version = "unreadable" -> RaiseMsg("UnboundLocalError", "e")
      [] fs.tbb_version = "malformed" -> RaiseMsg("UnboundLocalError", "e")
      [] fs.tbb_version = "no_version_key" -> RaiseMsg("KeyError", "version")

\* git describe, or the first line of the VERSION file when git exits
\* non-zero
OpenwpmVersion == IF fs.git = "ok" THEN "git describe" ELSE "VERSION"

get_version ==
    LET firefox_binary_path == get_firefox_binary_path IN
    IF firefox_binary_path.kind = "raise" THEN firefox_binary_path
    ELSE IF fs.firefox_exit # 0
    THEN RaiseMsg("RuntimeError", "Firefox not found.")
    ELSE LET tor_binary_path == get_torbrowser_binary_path IN
         IF tor_binary_path.kind = "raise" THEN tor_binary_path
         ELSE LET tor == ReadTorVersion IN
              IF tor.kind = "raise" THEN tor
              ELSE Return(<<OpenwpmVersion, "firefox --version", tor.value>>)

----------------------------------------------------------------------------
(* Inputs of the path resolvers *)

EnvNames == {"FIREFOX_BINARY", "TORBROWSER_BINARY", "TORBROWSER_PROFILE"}
Platforms == {"darwin", "linux"}
SliderSettings == {"standard", "safest"}
TbbStates == {"ok", "missing", "unreadable", "malformed", "no_version_key"}

FilesOn(pf) == {EnvFirefox, DefaultFirefox(pf), EnvTorBinary, DefaultTorBinary(pf)}
ProfileDirs == {<<EnvTorProfile, "standard">>,
                <<DefaultTorProfileParent, "standard">>}

Worlds(pf) ==
    [files : SUBSET FilesOn(pf), dirs : SUBSET ProfileDirs,
     git : {"ok", "failed"}, firefox_exit : {0, 1}, tbb_version : TbbStates]

PathsIdle ==
    /\ trace_str = NoTrace
    /\ heap = <<>> /\ manager_params = <<>> /\ browser_params = <<>>
    /\ versions = <<>>

InitPaths ==
    /\ call = "" /\ result = NoResult /\ stdout = <<>>
    /\ environ \in SUBSET EnvNames
    /\ platform \in Platforms
    /\ fs \in Worlds(platform)
    /\ slider_setting \in SliderSettings
    /\ PathsIdle

Called(name, outcome) ==
    /\ call = ""
    /\ call' = name
    /\ result' = outcome
    /\ UNCHANGED <<stdout, parseVars, pathVars, reportVars>>

GetFirefoxBinaryPath == Called("get_firefox_binary_path", get_firefox_binary_path)

GetTorbrowserBinaryPath ==
    Called("get_torbrowser_binary_path", get_torbrowser_binary_path)

GetTorbrowserProfilePath ==
    Called("get_torbrowser_profile_path",
           get_torbrowser_profile_path(slider_setting))

GetVersion == Called("get_version", get_version)

NextPaths ==
    \/ GetFirefoxBinaryPath
    \/ GetTorbrowserBinaryPath
    \/ GetTorbrowserProfilePath
    \/ GetVersion

SpecPaths == InitPaths /\ [][NextPaths]_vars

----------------------------------------------------------------------------
(* Python values and dicts of the report builder.                          *)
(* A value is [t |-> type name, v |-> content]; a dict is the sequence of  *)
(* its <<key, value>> pairs in insertion order, no key twice.              *)

None == [t |-> "NoneType", v |-> "None"]
Str(x) == [t |-> "str", v |-> x]
PyInt(n) == [t |-> "int", v |-> n]
EmptySettings == [t |-> "dict", v |-> "{}"]

\* str(x)
PyStr(x) == IF x.t = "NoneType" THEN "None" ELSE x.v

DictKeys(d) == [i \in 1..Len(d) |-> d[i][1]]
HasKey(d, k) == \E i \in 1..Len(d) : d[i][1] = k
\* d[k], for a key that is there
DictGet(d, k) == d[CHOOSE i \in 1..Len(d) : d[i][1] = k][2]
\* d[k] = v: in place for a key that is there, at the end for a new one
DictSet(d, k, v) ==
    IF HasKey(d, k)
    THEN [i \in 1..Len(d) |-> IF d[i][1] = k THEN <<k, v>> ELSE d[i]]
    ELSE Append(d, <<k, v>>)
\* the dict left by d.pop(k)
DictWithout(d, k) == SelectSeq(d, LAMBDA kv : kv[1] # k)

----------------------------------------------------------------------------
(* sorted(): Python compares str by code point, then by length *)

Lower == <<"a", "b", "c", "d", "e", "f", "g", "h", "i", "j", "k", "l", "m",
           "n", "o", "p", "q", "r", "s", "t", "u", "v", "w", "x", "y", "z">>

CodePoint(c) ==
    IF c = "_" THEN 95
    ELSE 96 + (CHOOSE i \in 1..Len(Lower) : Lower[i] = c)

\* The characters of the key names that occur
Chars(k) ==
    CASE k = "browser_id" -> <<"b","r","o","w","s","e","r","_","i","d">>
      [] k = "browser" -> <<"b","r","o","w","s","e","r">>
      [] k = "bot_mitigation" ->
             <<"b","o","t","_","m","i","t","i","g","a","t","i","o","n">>
      [] k = "display_mode" ->
             <<"d","i","s","p","l","a","y","_","m","o","d","e">>
      [] k = "seed_tar" -> <<"s","e","e","d","_","t","a","r">>
      [] k = "profile_archive_dir" ->
             <<"p","r","o","f","i","l","e","_","a","r","c","h","i","v","e",
               "_","d","i","r">>
      [] k = "cleaned_js_instrument_settings" ->
             <<"c","l","e","a","n","e","d","_","j","s","_","i","n","s","t",
               "r","u","m","e","n","t","_","s","e","t","t","i","n","g","s">>
      [] k = "num_browsers" ->
             <<"n","u","m","_","b","r","o","w","s","e","r","s">>
      [] k = "data_directory" ->
             <<"d","a","t","a","_","d","i","r","e","c","t","o","r","y">>

RECURSIVE SeqLess(_, _)
SeqLess(a, b) ==
    IF b = <<>> THEN FALSE
    ELSE IF a = <<>> THEN TRUE
    ELSE IF CodePoint(Head(a)) # CodePoint(Head(b))
         THEN CodePoint(Head(a)) < CodePoint(Head(b))
         ELSE SeqLess(Tail(a), Tail(b))

\* k1 < k2 on str
StrLess(k1, k2) == SeqLess(Chars(k1), Chars(k2))

RECURSIVE SortSet(_)
SortSet(ks) ==
    IF ks = {} THEN <<>>
    ELSE LET m == CHOOSE k \in ks : \A o \in ks \ {k} : StrLess(k, o) IN
         <<m>> \o SortSet(ks \ {m})

\* Faulty variant: the keys in the order the dict holds them
UnsortedKeys(d) == DictKeys(d)

\* sorted(item.keys())
SortedKeys(d) == SortSet({d[i][1] : i \in 1..Len(d)})

----------------------------------------------------------------------------
(* get_configuration_string *)

Text(x) == [kind |-> "text", body |-> x]
Json(d) == [kind |-> "json", body |-> d]
Table(rows, headers) == [kind |-> "table", body |-> <<rows, headers>>]

\* "\n\nOpenWPM Version: %s\nFirefox Version: %s\n"
HeaderFormat == <<"\n\nOpenWPM Version: ", "%s", "\nFirefox Version: ", "%s", "\n">>

RECURSIVE Substitute(_, _)
Substitute(fmt, args) ==
    IF fmt = <<>> THEN <<>>
    ELSE IF Head(fmt) = "%s"
         THEN <<Text(Head(args))>> \o Substitute(Tail(fmt), Tail(args))
         ELSE <<Text(Head(fmt))>> \o Substitute(Tail(fmt), args)

\* fmt % args for a tuple args: every %s takes one argument, and it is a
\* TypeError when the two numbers differ
PercentFormat(fmt, args) ==
    LET n == Len(SelectSeq(fmt, LAMBDA x : x = "%s")) IN
    IF Len(args) > n
    THEN RaiseMsg("TypeError",
                  "not all arguments converted during string formatting")
    ELSE IF Len(args) < n
    THEN RaiseMsg("TypeError", "not enough arguments for format string")
    ELSE Return(Substitute(fmt, args))

\* json.dumps(manager_params.to_dict(), sort_keys=True, ...)
SortKeysDict(d) ==
    LET ks == SortedKeys(d) IN [i \in 1..Len(ks) |-> <<ks[i], DictGet(d, ks[i])>>]

\* x.to_dict(): the mapping of the config object at addr (it need not be a
\* fresh object)
ToDict(h, addr) == addr

\* Faulty variant: no copy, the caller's object itself
DeepCopyAlias(h, addr) == [heap |-> h, addr |-> addr]

\* deepcopy(d): a new object with the same content
DeepCopy(h, addr) == [heap |-> Append(h, h[addr]), addr |-> Len(h) + 1]

RECURSIVE CopyParams(_, _, _)
\* print_params = [deepcopy(x.to_dict()) for x in browser_params]
CopyParams(h, params, copied) ==
    IF params = <<>> THEN [heap |-> h, print_params |-> copied]
    ELSE LET c == DeepCopy(h, ToDict(h, Head(params))) IN
         CopyParams(c.heap, Tail(params), Append(copied, c.addr))

\* Faulty variant: the flag follows the last value seen
LastNoneFlag(flag, value) == value.t = "NoneType"

\* if value is not None: flag = False
AllNoneFlag(flag, value) == IF value.t # "NoneType" THEN FALSE ELSE flag

\* dct["browser_id"] = browser_id; for key in sorted(item.keys()): ...
RECURSIVE CopySorted(_, _, _)
CopySorted(dct, item, keys) ==
    IF keys = <<>> THEN dct
    ELSE CopySorted(DictSet(dct, Head(keys), DictGet(item, Head(keys))),
                    item, Tail(keys))

RemainingFields(item) ==
    CopySorted(<<<<"browser_id", DictGet(item, "browser_id")>>>>, item,
               SortedKeys(item))

RECURSIVE PerBrowser(_, _, _)
\* The loop over print_params; st holds the locals it updates
PerBrowser(h, print_params, st) ==
    IF print_params = <<>> THEN [heap |-> h, st |-> st]
    ELSE LET a == Head(print_params)
             item == h[a]
             browser_id == DictGet(item, "browser_id")
             popped == DictWithout(DictWithout(DictWithout(item, "seed_tar"),
                                               "profile_archive_dir"),
                                   "cleaned_js_instrument_settings")
         IN PerBrowser(
              [h EXCEPT ![a] = popped],
              Tail(print_params),
              [profile_all_none |->
                   AllNoneFlag(st.profile_all_none, DictGet(item, "seed_tar")),
               archive_all_none |->
                   AllNoneFlag(st.archive_all_none,
                               DictGet(item, "profile_archive_dir")),
               profile_dirs |->
                   DictSet(st.profile_dirs, browser_id,
                           PyStr(DictGet(item, "seed_tar"))),
               archive_dirs |->
                   DictSet(st.archive_dirs, browser_id,
                           PyStr(DictGet(item, "profile_archive_dir"))),
               js_config |->
                   DictSet(st.js_config, browser_id,
                           DictGet(item, "cleaned_js_instrument_settings")),
               table_input |-> Append(st.table_input, RemainingFields(popped))])

\* key_dict[key] = counter; counter += 1
KeyDict(row) == [i \in 1..Len(row) |-> <<row[i][1], i - 1>>]

ManagerHeader == "\n========== Manager Configuration ==========\n"
BrowserHeader == "\n\n========== Browser Configuration ==========\n"
JsHeader == "\n\n========== JS Instrument Settings ==========\n"
ProfileHeader == "\n\n========== Input profile tar files ==========\n"
ArchiveHeader == "\n\n========== Output (archive) profile dirs ==========\n"
NoProfileTars == "  No profile tar files specified"
NoArchiveDirs == "  No profile archive directories specified"

\* [out: the outcome, heap: the heap the call leaves]
get_configuration_string(h, manager, params, vers) ==
    LET header == PercentFormat(HeaderFormat, vers) IN
    IF header.kind = "raise" THEN [out |-> header, heap |-> h]
    ELSE
    LET copied == CopyParams(h, params, <<>>)
        loop == PerBrowser(copied.heap, copied.print_params,
                           [profile_all_none |-> TRUE,
                            archive_all_none |-> TRUE,
                            profile_dirs |-> <<>>, archive_dirs |-> <<>>,
                            js_config |-> <<>>, table_input |-> <<>>])
        st == loop.st
    IN
    IF st.table_input = <<>>
    THEN [out |-> RaiseMsg("IndexError", "list index out of range"),
          heap |-> loop.heap]
    ELSE
    LET key_dict == KeyDict(st.table_input[1]) IN
    [out |-> Return(
         header.value
         \o <<Text(ManagerHeader), Json(SortKeysDict(manager)),
              Text(BrowserHeader), Text("Keys:\n"), Json(key_dict),
              Text("\n\n"), Table(st.table_input, key_dict),
              Text(JsHeader), Json(st.js_config),
              Text(ProfileHeader),
              IF st.profile_all_none THEN Text(NoProfileTars)
              ELSE Json(st.profile_dirs),
              Text(ArchiveHeader),
              IF st.archive_all_none THEN Text(NoArchiveDirs)
              ELSE Json(st.archive_dirs),
              Text("\n\n")>>),
     heap |-> loop.heap]

----------------------------------------------------------------------------
(* Inputs of the report builder *)

MaxBrowsers == 2

\* The order in which a config object holds its fields
Layouts ==
    { <<"display_mode", "seed_tar", "browser", "browser_id",
        "profile_archive_dir", "bot_mitigation",
        "cleaned_js_instrument_settings">>,
      <<"seed_tar", "profile_archive_dir", "cleaned_js_instrument_settings",
        "browser_id">> }

FieldValue(k, id, seed, archive) ==
    CASE k = "browser_id" -> PyInt(id)
      [] k = "seed_tar" -> seed
      [] k = "profile_archive_dir" -> archive
      [] k = "cleaned_js_instrument_settings" -> EmptySettings
      [] k = "browser" -> Str("firefox")
      [] k = "display_mode" -> Str("headless")
      [] k = "bot_mitigation" -> Str("False")

Config(layout, id, seed, archive) ==
    [i \in 1..Len(layout) |-> <<layout[i], FieldValue(layout[i], id, seed, archive)>>]

SeedTars == {None, Str("/a.tar")}
ArchiveDirs == {None, Str("/out")}

\* The browser ids of n configs: 0..n-1, counting up or down
IdOrders(n) == {[i \in 1..n |-> i - 1], [i \in 1..n |-> n - i]}

Heaps ==
    UNION { { [i \in 1..n |-> Config(c[i][1], ids[i], c[i][2], c[i][3])] :
                c \in [1..n -> Layouts \X SeedTars \X ArchiveDirs],
                ids \in IdOrders(n) } : n \in 0..MaxBrowsers }

ManagerParams ==
    <<<<"num_browsers", PyInt(1)>>, <<"data_directory", Str("~/openwpm")>>>>

VersionTuples ==
    { <<"v0.21.1", "100.0">>,
      <<"v0.21.1", "100.0", "Tor Browser Version11.0">> }

ReportIdle ==
    /\ trace_str = NoTrace
    /\ environ = {} /\ platform = "linux" /\ fs = NoWorld
    /\ slider_setting = ""

InitReport ==
    /\ call = "" /\ result = NoResult /\ stdout = <<>>
    /\ heap \in Heaps
    /\ browser_params = [i \in 1..Len(heap) |-> i]
    /\ manager_params = ManagerParams
    /\ versions \in VersionTuples
    /\ ReportIdle

GetConfigurationString ==
    /\ call = ""
    /\ LET r == get_configuration_string(heap, manager_params, browser_params,
                                         versions) IN
       /\ result' = r.out
       \* the objects the caller still holds; the copies are garbage
       /\ heap' = SubSeq(r.heap, 1, Len(heap))
    /\ call' = "get_configuration_string"
    /\ UNCHANGED <<stdout, parseVars, pathVars, manager_params,
                   browser_params, versions>>

NextReport == GetConfigurationString

SpecReport == InitReport /\ [][NextReport]_vars

----------------------------------------------------------------------------
(* The trace grammar <func_name>@<filename>:<line_no>:<col_no>;<async_cause>, *)
(* stated on positions of the text and not through split / rsplit            *)

NewlineAt(s) == {i \in 1..Len(s) : s[i] = "\n"}

LineCount(s) == Cardinality(NewlineAt(s)) + 1

\* Position of the k-th newline of s; 0 for k = 0, Len(s) + 1 past the last
NewlinePos(s, k) ==
    IF k = 0 THEN 0
    ELSE IF k > Cardinality(NewlineAt(s)) THEN Len(s) + 1
    ELSE CHOOSE i \in NewlineAt(s) :
             Cardinality({j \in NewlineAt(s) : j < i}) = k - 1

\* The k-th line of s
Line(s, k) == SubSeq(s, NewlinePos(s, k - 1) + 1, NewlinePos(s, k) - 1)

\* Positions of the first "@", of the ":" and of the last ";" of a line
FirstAts(line) ==
    {i \in 1..Len(line) :
        line[i] = "@" /\ \A j \in 1..(i - 1) : line[j] # "@"}
Colons(line) == {i \in 1..Len(line) : line[i] = ":"}
LastSemis(line) ==
    {i \in 1..Len(line) :
        line[i] = ";" /\ \A j \in (i + 1)..Len(line) : line[j] # ";"}

\* <<at, c1, c2, semi>>: the separator positions of a well-formed line
\* f@p:l:c;a, f without "@", a without ";", l and c without ":"
Decompositions(line) ==
    {d \in FirstAts(line) \X Colons(line) \X Colons(line) \X LastSemis(line) :
        /\ d[1] < d[2] /\ d[2] < d[3] /\ d[3] < d[4]
        /\ \A i \in (d[2] + 1)..(d[4] - 1) : i # d[3] => line[i] # ":"}

WellFormed(line) == Decompositions(line) # {}

\* The fields f, p, l, c, a of a well-formed line
Fields(line) ==
    LET d == CHOOSE d \in Decompositions(line) : TRUE IN
    [f |-> SubSeq(line, 1, d[1] - 1),
     p |-> SubSeq(line, d[1] + 1, d[2] - 1),
     l |-> SubSeq(line, d[2] + 1, d[3] - 1),
     c |-> SubSeq(line, d[3] + 1, d[4] - 1),
     a |-> SubSeq(line, d[4] + 1, Len(line))]

\* The frame record the code builds from the fields of a well-formed line
FrameOf(line) ==
    LET x == Fields(line) IN
    [func_name |-> x.f, filename |-> x.p, line_no |-> x.l, col_no |-> x.c,
     async_cause |-> x.a]

WellFormedLines(s) == {k \in 1..LineCount(s) : WellFormed(Line(s, k))}

\* Index of the n-th well-formed line of s
NthWellFormed(s, n) ==
    CHOOSE k \in WellFormedLines(s) :
        Cardinality({j \in WellFormedLines(s) : j < k}) = n - 1

Parsed == call = "parse_http_stack_trace_str"

----------------------------------------------------------------------------
(* Claims about parse_http_stack_trace_str *)

\* C1: for a trace of N well-formed and M malformed lines in any
\* interleaving the parser returns (never raises) exactly N frames, the
\* frames of the well-formed lines in their original order; so the output
\* is never longer than the number of input lines.
C1_FramesOfWellFormedLines ==
    Parsed =>
        /\ result.kind = "return"
        /\ Len(result.value) = Cardinality(WellFormedLines(trace_str))
        /\ Len(result.value) <= LineCount(trace_str)
        /\ \A n \in 1..Len(result.value) :
               result.value[n] = FrameOf(Line(trace_str, NthWellFormed(trace_str, n)))

C1_Witness ==
    /\ Parsed
    /\ LineCount(trace_str) = 3
    /\ WellFormed(Line(trace_str, 1))
    /\ ~WellFormed(Line(trace_str, 2))
    /\ WellFormed(Line(trace_str, 3))
    /\ Line(trace_str, 1) # Line(trace_str, 3)
    /\ Len(result.value) = 2
    /\ Len(stdout) = 1

Location(line) ==
    SubSeq(line, Find(line, "@", 1) + 1, RFind(line, ";", Len(line)) - 1)

\* C7 (as amended): in a parsed line the last two ":" of the text before
\* the last ";" separate filename, line and column; for the line
\* f@http://x:1:2:3:4;click the frame has filename "http://x:1:2",
\* line_no "3" and col_no "4".
C7_LastTwoColons ==
    (Parsed /\ LineCount(trace_str) = 1 /\ Len(result.value) = 1) =>
        LET fr == result.value[1] IN
        /\ fr.filename \o <<":">> \o fr.line_no \o <<":">> \o fr.col_no
               = Location(trace_str)
        /\ Find(fr.line_no, ":", 1) = 0
        /\ Find(fr.col_no, ":", 1) = 0
        /\ trace_str = UrlLine =>
               /\ fr.filename = <<"h", "t", "t", "p", ":", "/", "/", "x",
                                  ":", "1", ":", "2">>
               /\ fr.line_no = <<"3">>
               /\ fr.col_no = <<"4">>

C7_Witness ==
    /\ Parsed
    /\ trace_str = UrlLine
    /\ Len(result.value) = 1
    /\ result.value[1].async_cause = <<"c", "l", "i", "c", "k">>

\* C7 as stated: for the line f@http://x:1:2:3:4;click the frame has
\* filename "http://x:1" and line number "2".
C7_AsStated ==
    (Parsed /\ trace_str = UrlLine) =>
        /\ Len(result.value) = 1
        /\ result.value[1].filename =
               <<"h", "t", "t", "p", ":", "/", "/", "x", ":", "1">>
        /\ result.value[1].line_no = <<"2">>

----------------------------------------------------------------------------
(* Claims about the path resolvers and get_version *)

FirefoxFound == get_firefox_binary_path.kind = "return"
TorBinaryFound == get_torbrowser_binary_path.kind = "return"
RaisedRuntimeError(msg) ==
    result.kind = "raise" /\ result.exc = "RuntimeError" /\ result.value = msg

\* C8: get_version fails with a RuntimeError of its own for each of:
\* firefox executable missing, firefox --version exiting non-zero, the
\* tbb_version.json file missing, unreadable, malformed; when none of these
\* happens it returns the 3-tuple (harness, firefox, Tor Browser version).
C8_DistinctRuntimeErrors ==
    call = "get_version" =>
        /\ ~FirefoxFound => result.kind = "raise" /\ result.exc = "RuntimeError"
        /\ (FirefoxFound /\ fs.firefox_exit # 0) =>
               RaisedRuntimeError("Firefox not found.")
        /\ (FirefoxFound /\ fs.firefox_exit = 0 /\ TorBinaryFound) =>
               /\ fs.tbb_version = "missing" =>
                      RaisedRuntimeError("Tor Browser version info not found.")
               /\ fs.tbb_version = "unreadable" =>
                      RaisedRuntimeError("Tor Browser version info cannot be read.")
               /\ fs.tbb_version = "malformed" =>
                      RaisedRuntimeError("Tor Browser version info not formatted properly.")
               /\ fs.tbb_version = "ok" =>
                      result.kind = "return" /\ Len(result.value) = 3

\* The profile directory get_torbrowser_profile_path is to look at
ChosenProfileDir ==
    IF "TORBROWSER_PROFILE" \in environ
    THEN <<EnvTorProfile, slider_setting>>
    ELSE <<DefaultTorProfileParent, slider_setting>>

\* C9: get_torbrowser_profile_path looks at the TORBROWSER_PROFILE override
\* first and else at the conventional location; when the chosen directory
\* exists it returns that path, in every other case it raises RuntimeError,
\* and no call ends in another kind of failure, on any platform.
C9_PathOrRuntimeError ==
    call = "get_torbrowser_profile_path" =>
        IF ChosenProfileDir \in fs.dirs
        THEN result = Return(ChosenProfileDir)
        ELSE result.kind = "raise" /\ result.exc = "RuntimeError"

----------------------------------------------------------------------------
(* Claims about get_configuration_string *)

Built == call = "get_configuration_string"
Reported == Built /\ result.kind = "return"

\* The config object of the i-th browser, as the caller holds it
CallerConfig(i) == heap[browser_params[i]]

\* The item of the report that follows the text item delim
ItemAfter(report, delim) ==
    report[(CHOOSE i \in 1..Len(report) :
                /\ report[i] = Text(delim)
                /\ \A j \in 1..(i - 1) : report[j] # Text(delim)) + 1]

\* The items of the report before the manager configuration section
HeaderBlock(report) ==
    SubSeq(report, 1,
           (CHOOSE i \in 1..Len(report) : report[i] = Text(ManagerHeader)) - 1)

\* C3: called with a non-empty sequence of browser configs and a 3-tuple
\* of versions, get_configuration_string returns a report whose header
\* block holds the harness version and both browser version strings.
C3_HeaderHoldsThreeVersions ==
    (Built /\ Len(versions) = 3 /\ browser_params # <<>>) =>
        /\ result.kind = "return"
        /\ \A n \in 1..3 :
               \E i \in 1..Len(HeaderBlock(result.value)) :
                   HeaderBlock(result.value)[i] = Text(versions[n])

\* C4: called with an empty sequence of browser configs (and versions the
\* header takes), get_configuration_string fails with an error that says a
\* browser configuration is required, not with an out-of-range access
\* error, and returns no report.
C4_EmptyConfigsDescriptiveError ==
    (Built /\ browser_params = <<>> /\ Len(versions) = 2) =>
        /\ result.kind = "raise"
        /\ result.exc # "IndexError"
        /\ result.value # "list index out of range"

\* C5: a call of get_configuration_string, returning or raising, leaves
\* every caller-supplied browser config as it was: the same fields, among
\* them seed_tar, profile_archive_dir and cleaned_js_instrument_settings,
\* with the same values.
C5_CallerConfigsUntouched ==
    [][call' = "get_configuration_string" =>
           /\ browser_params' = browser_params
           /\ \A i \in 1..Len(browser_params) :
                  /\ heap'[browser_params[i]] = heap[browser_params[i]]
                  /\ HasKey(heap'[browser_params[i]], "seed_tar")
                  /\ HasKey(heap'[browser_params[i]], "profile_archive_dir")
                  /\ HasKey(heap'[browser_params[i]],
                            "cleaned_js_instrument_settings")]_vars

C5_Witness ==
    /\ Reported
    /\ Len(browser_params) = 2
    /\ DictGet(CallerConfig(1), "seed_tar") = Str("/a.tar")
    /\ ItemAfter(result.value, ProfileHeader).kind = "json"
    /\ \A r \in 1..2 : ~HasKey(ItemAfter(result.value, "\n\n").body[1][r], "seed_tar")

\* The mapping a profile section is to show: every browser_id in input
\* order with its value of the field, "None" for an absent one
ExpectedDirs(field) ==
    [i \in 1..Len(browser_params) |->
        <<DictGet(CallerConfig(i), "browser_id"),
          IF DictGet(CallerConfig(i), field) = None THEN "None"
          ELSE DictGet(CallerConfig(i), field).v>>]

AllAbsent(field) ==
    \A i \in 1..Len(browser_params) : DictGet(CallerConfig(i), field) = None

\* C6: in the report each of the two profile sections shows its
\* placeholder line and no JSON object exactly when every browser's value
\* of the field is absent; otherwise it shows the JSON mapping of every
\* browser_id, in input order, to its value, "None" for an absent one.
C6_PlaceholderIffAllAbsent ==
    Reported =>
        /\ ItemAfter(result.value, ProfileHeader) =
               IF AllAbsent("seed_tar") THEN Text(NoProfileTars)
               ELSE Json(ExpectedDirs("seed_tar"))
        /\ ItemAfter(result.value, ArchiveHeader) =
               IF AllAbsent("profile_archive_dir") THEN Text(NoArchiveDirs)
               ELSE Json(ExpectedDirs("profile_archive_dir"))

C6_Witness ==
    /\ Reported
    /\ Len(browser_params) = 2
    /\ DictGet(CallerConfig(1), "seed_tar") = Str("/a.tar")
    /\ DictGet(CallerConfig(2), "seed_tar") = None
    /\ AllAbsent("profile_archive_dir")
    /\ ItemAfter(result.value, ProfileHeader).kind = "json"
    /\ ItemAfter(result.value, ArchiveHeader).kind = "text"

Extracted == {"seed_tar", "profile_archive_dir", "cleaned_js_instrument_settings"}

\* The keys the remaining-fields record of the i-th browser is to hold
RemainingKeys(i) ==
    {CallerConfig(i)[j][1] : j \in 1..Len(CallerConfig(i))} \ Extracted

TableRows(report) == ItemAfter(report, "\n\n").body[1]
Legend(report) == ItemAfter(report, "Keys:\n").body

\* C10: the remaining-fields record of every browser has browser_id as its
\* first key, then all other remaining keys in lexical order, values
\* unmodified, no key repeated or lost; the legend maps the keys of the
\* first browser's record, in that order, to 0, 1, 2, ..., browser_id to 0;
\* the table rows follow the input order of the browsers.
C10_RowsAndLegend ==
    Reported =>
        LET rows == TableRows(result.value)
            legend == Legend(result.value)
        IN
        /\ Len(rows) = Len(browser_params)
        /\ \A i \in 1..Len(rows) :
               /\ rows[i][1][1] = "browser_id"
               /\ \A j \in 2..(Len(rows[i]) - 1) :
                      StrLess(rows[i][j][1], rows[i][j + 1][1])
               /\ \A j \in 2..Len(rows[i]) : rows[i][j][1] # "browser_id"
               /\ {rows[i][j][1] : j \in 1..Len(rows[i])} = RemainingKeys(i)
               /\ \A j \in 1..Len(rows[i]) :
                      rows[i][j][2] = DictGet(CallerConfig(i), rows[i][j][1])
        /\ Len(legend) = Len(rows[1])
        /\ \A j \in 1..Len(legend) : legend[j] = <<rows[1][j][1], j - 1>>
        /\ legend[1] = <<"browser_id", 0>>

C10_Witness ==
    /\ Reported
    /\ Len(browser_params) = 2
    /\ DictGet(CallerConfig(1), "browser_id") = PyInt(1)
    /\ DictGet(CallerConfig(2), "browser_id") = PyInt(0)
    /\ DictKeys(TableRows(result.value)[1]) =
           <<"browser_id", "bot_mitigation", "browser", "display_mode">>
    /\ DictKeys(TableRows(result.value)[2]) = <<"browser_id">>
    /\ Len(Legend(result.value)) = 4

====
